---- MODULE Spec2Model ----
(***************************************************************************)
(* gorqlite: a client for an rqlite cluster.  The model covers the         *)
(* Connection (its topology, its closed flag and its settings), the        *)
(* topology refresh updateClusterInfo and the request executor             *)
(* rqliteApiCall, which walks the cached peer list one peer at a time.     *)
(*                                                                         *)
(* One goroutine drives the connection in Spec: a public operation is      *)
(* entered, each iteration of the executor's peer loop is one step (the    *)
(* peer's answer is chosen by the environment), and the step that ends     *)
(* the loop also runs the rest of the handler.  ConcSpec adds a second     *)
(* goroutine that reads the topology while a refresh is written.           *)
(***************************************************************************)
EXTENDS Integers, Sequences, FiniteSets, TLC

VARIABLES
    conn,       \* the Connection: cluster, hasBeenClosed and settings
    pc,         \* "new" (before Open), "idle", "call" (inside rqliteApiCall),
                \* "store" (ConcSpec: inside the assignment conn.cluster = rc)
    call,       \* the executor frame of the operation in flight, or of the last one
    ctxDone,    \* the caller's context has been cancelled
    reqLog,     \* history: every client.Do of the executor call in flight / last made
    ret,        \* what the last rqliteApiCall returned
    result,     \* what the last public operation returned
    rd,         \* a second goroutine reading the topology (ConcSpec only)
    fn,         \* the last call of a function that needs no connection: its
                \* name, its arguments and what it returned
    tracer      \* the process-wide trace sink: on or off, and the lines it got

vars == <<conn, pc, call, ctxDone, reqLog, ret, result, rd, fn, tracer>>

----------------------------------------------------------------------------
(* Bounds of the model *)

\* nodes in one /nodes response
MaxNodes == 1
\* additional comma-separated seed URLs given to Open
MaxSeeds == 2

----------------------------------------------------------------------------
(* Values *)

\* peer is a string "host:port"; "" is the unknown leader
Hosts == {"host1:4001", "host2:4002", "host3:4003"}
NoPeer == ""

\* api_addr values of a /nodes record: absent, unparsable, or the URL of a host
BadAddr == "http://%zz"
APIAddr(h) ==
    CASE h = "host1:4001" -> "http://host1:4001"
      [] h = "host2:4002" -> "http://host2:4002"
      [] h = "host3:4003" -> "http://host3:4003"

\* url.Parse(v.APIAddr): err for an invalid escape, else the URL's Host
urlParse(a) ==
    CASE a = "http://host1:4001" -> [err |-> FALSE, Host |-> "host1:4001"]
      [] a = "http://host2:4002" -> [err |-> FALSE, Host |-> "host2:4002"]
      [] a = "http://host3:4003" -> [err |-> FALSE, Host |-> "host3:4003"]
      [] a = "http://host4"      -> [err |-> FALSE, Host |-> "host4"]
      [] a = ""                  -> [err |-> FALSE, Host |-> ""]
      [] OTHER                   -> [err |-> TRUE,  Host |-> ""]

SeqUpTo(S, n) == UNION {[1..k -> S] : k \in 0..n}

\* consistencyLevel (iota): none, weak, strong
ConsistencyLevelNone == 0
ConsistencyLevelWeak == 1
ConsistencyLevelStrong == 2
\* faulty variant: the names are one level off
consistencyLevelNames_shifted == [l \in {0, 1, 2} |-> CASE l = 0 -> "weak" [] l = 1 -> "strong" [] l = 2 -> "none"]

consistencyLevelNames == [l \in {0, 1, 2} |-> CASE l = 0 -> "none" [] l = 1 -> "weak" [] l = 2 -> "strong"]
LevelNames == {"none", "weak", "strong"}
\* consistencyLevels[name]: a name that is no key reads as the zero value
consistencyLevels(name) ==
    CASE name = "none" -> 0 [] name = "weak" -> 1 [] name = "strong" -> 2 [] OTHER -> 0

\* faulty variant: the ok of the map lookup is not looked at
hasLevel_any(name) == TRUE

\* _, ok := consistencyLevels[name]
hasLevel(name) == name \in LevelNames

\* apiOperation
ApiOps == {"api_QUERY", "api_STATUS", "api_WRITE", "api_NODES", "api_REQUEST"}

\* errors
ErrClosed == "gorqlite: connection is closed"
ErrNoPeers == "don't have any cluster info"
ErrAllPeers == "tried all peers unsuccessfully"
ErrInvalidGet == "rqliteApiGet() called for invalid api operation"
ErrInvalidPost == "rqliteApiPost() called for invalid api operation"
ErrNoLeader == "cluster-info/no leader: could not determine leader from API nodes call"
ErrUnmarshal == "could not unmarshal nodes/ response"
ErrParseAddr == "could not parse API address"
ErrUnknownLevel == "unknown consistency level"
NoErr == ""

----------------------------------------------------------------------------
(* rqliteCluster *)

EmptyCluster == [leader |-> NoPeer, otherPeers |-> <<>>, peerList |-> <<>>]

\* rqliteCluster.PeerList: the cached list
PeerList(rc) == rc.peerList

\* faulty variant: the other peers are listed before the leader
makePeerList_othersFirst(rc) ==
    rc.otherPeers \o (IF rc.leader # NoPeer THEN <<rc.leader>> ELSE <<>>)

\* rqliteCluster.makePeerList: leader (when known) then the other peers
makePeerList(rc) ==
    (IF rc.leader # NoPeer THEN <<rc.leader>> ELSE <<>>) \o rc.otherPeers

----------------------------------------------------------------------------
(* The network: what one client.Do, io.ReadAll and the status check can yield *)

\* c.Do succeeds and the body is read: the status the executor sees.  A 301 is
\* seen on a POST only (a GET's redirects are followed inside the transport).
Outcomes(method) ==
    IF method = "GET" THEN {"200", "500", "doErr", "readErr"}
    ELSE {"200", "301", "500", "doErr", "readErr"}

\* records of a /nodes response: reachable nodes of every host, leader or not,
\* and the three kinds of dead or broken record
NodeRecords ==
    {[api_addr |-> APIAddr(h), reachable |-> TRUE, leader |-> l] : h \in Hosts, l \in BOOLEAN}
    \cup {[api_addr |-> APIAddr("host1:4001"), reachable |-> FALSE, leader |-> TRUE],
          [api_addr |-> "", reachable |-> TRUE, leader |-> TRUE],
          [api_addr |-> BadAddr, reachable |-> TRUE, leader |-> FALSE]}

NoBody == [kind |-> "none", nodes |-> <<>>, id |-> 0]
GarbageBody == [kind |-> "garbage", nodes |-> <<>>, id |-> 0]
\* a /nodes body is the node map in the order Go iterates it
NodesBodies ==
    {[kind |-> "nodes", nodes |-> s, id |-> 0] : s \in SeqUpTo(NodeRecords, MaxNodes)}
    \cup {GarbageBody}
PostBodies == {[kind |-> "results", nodes |-> <<>>, id |-> n] : n \in {1, 2}}
Bodies(apiOp) == IF apiOp = "api_NODES" THEN NodesBodies ELSE PostBodies

----------------------------------------------------------------------------
(* updateClusterInfo, after the /nodes call has returned *)

\* faulty variant: only the missing address is tested
deadPeer_addrOnly(v) == v.api_addr = ""

\* "dead peers are not reachable or have no http addr"
deadPeer(v) == ~v.reachable \/ v.api_addr = ""

RECURSIVE nodesLoop(_, _, _)
nodesLoop(nodes, k, rc) ==
    IF k > Len(nodes) THEN [err |-> NoErr, rc |-> rc]
    ELSE LET v == nodes[k] IN
         IF deadPeer(v) THEN nodesLoop(nodes, k + 1, rc)
         ELSE LET u == urlParse(v.api_addr) IN
              IF u.err THEN [err |-> ErrParseAddr, rc |-> rc]
              ELSE IF v.leader
                   THEN nodesLoop(nodes, k + 1, [rc EXCEPT !.leader = u.Host])
                   ELSE nodesLoop(nodes, k + 1, [rc EXCEPT !.otherPeers = Append(@, u.Host)])

\* faulty variant: the leader is left out of the cached list
cachePeerList_noLeader(rc) == [rc EXCEPT !.peerList = rc.otherPeers]

\* rc.peerList: the leader (when known), then the other peers
cachePeerList(rc) ==
    [rc EXCEPT !.peerList = (IF rc.leader # NoPeer THEN <<rc.leader>> ELSE <<>>) \o rc.otherPeers]

\* faulty variant: the refresh fills conn.cluster in place, so a failure leaves rc behind
clusterOnError_partial(old, rc) == rc

\* what the refresh leaves in conn.cluster when it fails with rc half built
clusterOnError(old, rc) == old

\* the body of updateClusterInfo from the return of rqliteApiGet(api_NODES) on:
\* the error it returns and the cluster the connection holds afterwards
updateClusterInfo(old, r) ==
    IF r.err # NoErr THEN [err |-> ErrNoLeader, cluster |-> clusterOnError(old, EmptyCluster)]
    ELSE IF r.body.kind # "nodes" THEN [err |-> ErrUnmarshal, cluster |-> clusterOnError(old, EmptyCluster)]
    ELSE LET p == nodesLoop(r.body.nodes, 1, EmptyCluster) IN
         IF p.err # NoErr THEN [err |-> p.err, cluster |-> clusterOnError(old, p.rc)]
         ELSE [err |-> NoErr, cluster |-> cachePeerList(p.rc)]

----------------------------------------------------------------------------
(* Connection *)

DefaultPeer == "localhost:4001"
defaultTimeout == 2

ErrShort == "url specified is impossibly short"
ErrNoHTTP == "url does not start with 'http'"
ErrURLParse == "parse: invalid URL"
ErrBadLevel == "invalid consistency level"
ErrBadTimeout == "invalid timeout"
ErrBadDcd == "invalid disableClusterDiscovery value"
ConfigErrors == {ErrShort, ErrNoHTTP, ErrURLParse, ErrBadLevel, ErrBadTimeout, ErrBadDcd}

\* a password whose text is no valid URL escape once it is written into a URL
BadPassword == "p%zz"
Credentials ==
    {[username |-> "", password |-> ""],
     [username |-> "mary", password |-> ""],
     [username |-> "mary", password |-> "secret2"],
     [username |-> "mary", password |-> BadPassword]}

\* the first URL of the connection string: too short, without the http prefix,
\* rejected by url.Parse, or a URL with user-info, host and the options
\* level, timeout and disableClusterDiscovery ("" when the option is absent)
ConnURLs ==
    {[form |-> "ok", username |-> cr.username, password |-> cr.password, host |-> h,
      level |-> l, timeout |-> t, dcd |-> d] :
        cr \in Credentials, h \in Hosts \cup {""}, l \in LevelNames \cup {"", "bogus"},
        t \in {"", "5", "abc"}, d \in {"", "true", "false", "maybe"}}
    \cup {[form |-> f, username |-> "", password |-> "", host |-> "",
           level |-> "", timeout |-> "", dcd |-> ""] : f \in {"short", "nohttp", "unparsable"}}

\* faulty variant: the error of Atoi is dropped and the value taken as it is
atoi_unchecked(ts) ==
    CASE ts = "5" -> [err |-> FALSE, n |-> 5]
      [] OTHER    -> [err |-> FALSE, n |-> 0]

\* strconv.Atoi(ts)
atoi(ts) ==
    CASE ts = "5" -> [err |-> FALSE, n |-> 5]
      [] OTHER    -> [err |-> TRUE, n |-> 0]

\* faulty variant: the option is read but its value is dropped
parseBool_dropped(d) ==
    CASE d \in {"true", "false"} -> [err |-> FALSE, b |-> FALSE]
      [] OTHER                   -> [err |-> TRUE, b |-> FALSE]

\* strconv.ParseBool(dcd)
parseBool(d) ==
    CASE d = "true"  -> [err |-> FALSE, b |-> TRUE]
      [] d = "false" -> [err |-> FALSE, b |-> FALSE]
      [] OTHER       -> [err |-> TRUE, b |-> FALSE]

\* the zero Connection OpenContext starts from
NewConn ==
    [cluster |-> EmptyCluster,
     hasBeenClosed |-> FALSE,
     consistencyLevel |-> ConsistencyLevelNone,
     wantsHTTPS |-> FALSE,
     wantsTransactions |-> FALSE,
     wantsQueueing |-> FALSE,
     disableClusterDiscovery |-> FALSE,
     username |-> "",
     password |-> "",
     timeout |-> 0]

\* initConnection after the sanity checks and url.Parse: credentials, the host
\* as leader and whole peer list, then the defaults
initDefaults(c, u) ==
    LET l == IF u.host = "" THEN DefaultPeer ELSE u.host
    IN  [c EXCEPT !.username = u.username,
                  !.password = u.password,
                  !.cluster.leader = l,
                  !.cluster.peerList = <<l>>,
                  !.consistencyLevel = ConsistencyLevelWeak,
                  !.timeout = defaultTimeout,
                  !.wantsTransactions = TRUE,
                  !.disableClusterDiscovery = FALSE]

\* initConnection(url): the error it returns and the connection it leaves.
\* An option error returns with what was assigned before it.
initConnection(c, u) ==
    IF u.form = "short" THEN [err |-> ErrShort, conn |-> c]
    ELSE IF u.form = "nohttp" THEN [err |-> ErrNoHTTP, conn |-> c]
    ELSE IF u.form = "unparsable" THEN [err |-> ErrURLParse, conn |-> c]
    ELSE LET c1 == initDefaults(c, u) IN
         IF u.level # "" /\ u.level \notin LevelNames THEN [err |-> ErrBadLevel, conn |-> c1]
         ELSE LET c2 == IF u.level = "" THEN c1
                        ELSE [c1 EXCEPT !.consistencyLevel = consistencyLevels(u.level)] IN
              IF u.timeout # "" /\ atoi(u.timeout).err THEN [err |-> ErrBadTimeout, conn |-> c2]
              ELSE LET c3 == IF u.timeout = "" THEN c2
                             ELSE [c2 EXCEPT !.timeout = atoi(u.timeout).n] IN
                   IF u.dcd # "" /\ parseBool(u.dcd).err THEN [err |-> ErrBadDcd, conn |-> c3]
                   ELSE [err |-> NoErr,
                         conn |-> IF u.dcd = "" THEN c3
                                  ELSE [c3 EXCEPT !.disableClusterDiscovery = parseBool(u.dcd).b]]

\* net.SplitHostPort(u.Host) fails when the host carries no port
splitHostPortErr(h) == h \notin Hosts

\* peer(fmt.Sprintf("%s:%d", u.Host, 4001))
withDefaultPort(h) ==
    CASE h = "host4" -> "host4:4001"
      [] h = ""      -> ":4001"
      [] OTHER       -> h

\* OpenContext: the peer of one further URL, with port 4001 when its host
\* carries none
seedPeer(h) == IF splitHostPortErr(h) THEN withDefaultPort(h) ELSE h

\* OpenContext, after initConnection: every further URL is one more other peer,
\* and the other peers are appended to the cached list
addSeeds(c, seeds) ==
    LET others == [i \in 1..Len(seeds) |-> seedPeer(seeds[i])]
    IN  [c EXCEPT !.cluster.otherPeers = @ \o others,
                  !.cluster.peerList = @ \o (c.cluster.otherPeers \o others)]

\* faulty variant: the closed check is missing
closedCheck_missing(c) == FALSE

\* if conn.hasBeenClosed { return ErrClosed }
closedCheck(c) == c.hasBeenClosed

\* faulty variant: Close flips the flag, so a second Close reopens the connection
closeConn_toggle(c) == [c EXCEPT !.hasBeenClosed = ~c.hasBeenClosed]

\* Connection.Close
closeConn(c) == [c EXCEPT !.hasBeenClosed = TRUE]

\* what Leader returns after a refresh without error
leaderValue(c) == <<c.cluster.leader>>

\* what Peers returns after a refresh without error
peersValue(c) ==
    (IF c.cluster.leader # NoPeer THEN <<c.cluster.leader>> ELSE <<>>) \o c.cluster.otherPeers

----------------------------------------------------------------------------
(* URLs and the trace sink *)

\* a request URL, as the parts the text is built from
NoURL == [scheme |-> "", username |-> "", password |-> "", host |-> "", path |-> "", query |-> <<>>]

apiPath(apiOp) ==
    CASE apiOp = "api_STATUS"  -> "/status"
      [] apiOp = "api_NODES"   -> "/nodes"
      [] apiOp = "api_QUERY"   -> "/db/query"
      [] apiOp = "api_WRITE"   -> "/db/execute"
      [] apiOp = "api_REQUEST" -> "/db/request"

DataOps == {"api_QUERY", "api_WRITE", "api_REQUEST"}

\* faulty variant: the queue flag is written for every data operation
queryString_queueAll(c, apiOp) ==
    IF apiOp \notin DataOps THEN <<>>
    ELSE <<(<<"timings">>), <<"level", consistencyLevelNames[c.consistencyLevel]>>>>
         \o (IF c.wantsTransactions THEN <<(<<"transaction">>)>> ELSE <<>>)
         \o (IF c.wantsQueueing THEN <<(<<"queue">>)>> ELSE <<>>)

\* the query string of assembleURL, as its parameters in the order written
queryString(c, apiOp) ==
    IF apiOp \notin DataOps THEN <<>>
    ELSE <<(<<"timings">>), <<"level", consistencyLevelNames[c.consistencyLevel]>>>>
         \o (IF c.wantsTransactions THEN <<(<<"transaction">>)>> ELSE <<>>)
         \o (IF apiOp = "api_WRITE" /\ c.wantsQueueing THEN <<(<<"queue">>)>> ELSE <<>>)

\* assembleURL: user-info is written when username and password are both set
assembleURL(c, apiOp, p) ==
    LET userinfo == c.username # "" /\ c.password # ""
    IN  [scheme |-> IF c.wantsHTTPS THEN "https" ELSE "http",
         username |-> IF userinfo THEN c.username ELSE "",
         password |-> IF userinfo THEN c.password ELSE "",
         host |-> p,
         path |-> apiPath(apiOp),
         query |-> queryString(c, apiOp)]

\* url.Parse of an assembled URL fails on an invalid escape in the user-info
urlParses(u) == u.password # BadPassword

\* redactURL: "" when the URL does not parse, else u.Redacted()
redactURL(u) ==
    IF ~urlParses(u) THEN NoURL
    ELSE [u EXCEPT !.password = IF @ = "" THEN "" ELSE "xxxxx"]

\* the URL inside the *url.Error of client.Do: net/http strips the password
stripPassword(u) == [u EXCEPT !.password = IF @ = "" THEN "" ELSE "***"]

\* the sink before TraceOn: Discard
TracerOff == [on |-> FALSE, out |-> {}]

\* one trace line: its pattern and the passwords its arguments spell out.
\* tracer.out keeps the lines that format a URL, a connection setting or an
\* error text; the lines that format nothing but conn.ID are left out.
Msg(text, secrets) == [text |-> text, secrets |-> secrets \ {""}]

trace(msgs) ==
    tracer' = IF tracer.on THEN [tracer EXCEPT !.out = @ \cup msgs] ELSE tracer

\* the lines of OpenContext and initConnection for first URL u, i the result
\* of initConnection (the settings are traced only when no option was wrong)
openTrace(u, i) ==
    {Msg("Open() called for url", {u.password})}
    \cup (IF i.err # NoErr THEN {}
          ELSE {Msg("username", {}), Msg("password", {i.conn.password}), Msg("host", {}),
                Msg("consistencyLevel", {}), Msg("wantsTransaction", {}),
                Msg("timeout", {}), Msg("clusterDiscovery", {})})

\* the lines of one iteration of the peer loop for URL surl with outcome o
attemptTrace(surl, o) ==
    {Msg("assembled URL", {surl.password})}
    \cup (CASE o = "newReqErr" -> {Msg("got error doing http.NewRequest", {surl.password})}
            [] o \in {"doErr", "ctxErr"} -> {Msg("got error doing client.Do", {})}
            [] o = "readErr" -> {Msg("got error doing ioutil.ReadAll", {})}
            [] o \in {"500", "301"} -> {Msg("got code", {})}
            [] OTHER -> {})

TraceOn ==
    /\ ~tracer.on
    /\ tracer' = [tracer EXCEPT !.on = TRUE]
    /\ UNCHANGED <<conn, pc, call, ctxDone, reqLog, ret, result, rd, fn>>

TraceOff ==
    /\ tracer.on
    /\ tracer' = [tracer EXCEPT !.on = FALSE]
    /\ UNCHANGED <<conn, pc, call, ctxDone, reqLog, ret, result, rd, fn>>

----------------------------------------------------------------------------
(* Frames and returns *)

NoCall == [op |-> "none", apiOp |-> "none", method |-> "none", legacy |-> FALSE,
           peers |-> <<>>, i |-> 0, failureLog |-> <<>>, before |-> EmptyCluster,
           old |-> EmptyCluster, rc |-> EmptyCluster, stored |-> {}]
NoRet == [body |-> NoBody, err |-> NoErr, failureLog |-> <<>>]
NoResult == [op |-> "none", err |-> NoErr, value |-> <<>>, body |-> NoBody]
Result(op, err, value, body) == [op |-> op, err |-> err, value |-> value, body |-> body]

RefreshOps == {"Open", "Leader", "Peers"}
PostOps == {"Write", "Query"}

\* faulty variant: a call that failed on every peer forgets the peers
afterCall_forget(c, f, r) ==
    IF f.op \in RefreshOps
    THEN LET u == updateClusterInfo(c.cluster, r)
         IN  [conn |-> [c EXCEPT !.cluster = u.cluster],
              result |-> Result(f.op, u.err, <<>>, NoBody)]
    ELSE [conn |-> IF r.err = ErrAllPeers THEN [c EXCEPT !.cluster = EmptyCluster] ELSE c,
          result |-> Result(f.op, r.err, <<>>, r.body)]

\* the rest of the public operation once its executor call has returned r:
\* the connection and the operation's result
afterCall(c, f, r) ==
    IF f.op \in RefreshOps
    THEN LET u == updateClusterInfo(c.cluster, r)
             c2 == [c EXCEPT !.cluster = u.cluster]
         IN  [conn |-> c2,
              result |-> IF u.err # NoErr THEN Result(f.op, u.err, <<>>, NoBody)
                         ELSE IF f.op = "Leader" THEN Result(f.op, NoErr, leaderValue(c2), NoBody)
                         ELSE IF f.op = "Peers" THEN Result(f.op, NoErr, peersValue(c2), NoBody)
                         ELSE Result(f.op, NoErr, <<>>, NoBody)]
    ELSE [conn |-> c, result |-> Result(f.op, r.err, <<>>, r.body)]

\* the operation returns: back to idle (f: the frame the executor ended with)
Return(c, res, r, f) ==
    /\ conn' = c
    /\ result' = res
    /\ ret' = r
    /\ pc' = "idle"
    /\ call' = f

\* the peers the executor walks: the cached list (rqliteApiCall), or the list
\* rebuilt from leader and other peers (the rqliteApiPost of api.go)
peersToTry(c, legacy) == IF legacy THEN makePeerList(c.cluster) ELSE PeerList(c.cluster)

\* entry of the executor for operation op on connection c
Enter(c, op, apiOp, method, legacy) ==
    LET peers == peersToTry(c, legacy)
        f == [op |-> op, apiOp |-> apiOp, method |-> method, legacy |-> legacy,
              peers |-> peers, i |-> 1, failureLog |-> <<>>, before |-> c.cluster,
              old |-> EmptyCluster, rc |-> EmptyCluster, stored |-> {}]
    IN  /\ reqLog' = <<>>
        /\ ctxDone' = FALSE
        /\ IF Len(peers) < 1
           THEN LET r == [body |-> NoBody, err |-> ErrNoPeers, failureLog |-> <<>>]
                    a == afterCall(c, f, r)
                IN  Return(a.conn, a.result, r, f)
           ELSE /\ conn' = c
                /\ pc' = "call"
                /\ call' = f
                /\ ret' = NoRet
                /\ result' = NoResult

\* an operation that returns at once, without the executor
Immediate(c, res) ==
    /\ Return(c, res, NoRet, NoCall)
    /\ reqLog' = <<>>
    /\ ctxDone' = FALSE

----------------------------------------------------------------------------
(* rqliteApiCall: one iteration of the peer loop per step *)

\* response.StatusCode == http.StatusOK
statusOK(o) == o = "200"

\* faulty variant: the loop skips a peer
nextIndex_skip(i) == i + 2

\* the loop advances to the next element of peers
nextIndex(i) == i + 1

\* faulty variant: a redirect is followed in the same slot, so a peer that
\* always answers 301 is asked again and again
loopStep_follow(i, o) == IF o = "301" THEN i ELSE nextIndex(i)

\* the slot of the next request after outcome o in slot i: every failure,
\* a 301 included, ends the iteration (continue, continue PeerLoop)
loopStep(i, o) == nextIndex(i)

\* the entry appended to failureLog for a peer that did not answer 200
failureCause(o, legacy) ==
    CASE o = "doErr"   -> "failed due to transport error"
      [] o = "ctxErr"  -> "failed due to context canceled"
      [] o = "readErr" -> "failed due to read error"
      [] o = "500"     -> "failed, got: 500"
      [] o = "301"     -> IF legacy THEN "redirected me to Location" ELSE "failed, got: 301"
      [] o = "newReqErr" -> "failed due to parse error"

\* one failureLog entry: the peer, the cause, the URL the entry starts with
\* (redacted by rqliteApiCall, as assembled by the functions of api.go) and the
\* URL the error text quotes (url.Parse quotes its input, client.Do the URL
\* with the password stripped)
failureEntry(surl, o, legacy) ==
    [peer |-> surl.host,
     cause |-> failureCause(o, legacy),
     url |-> IF legacy THEN surl ELSE redactURL(surl),
     errURL |-> CASE o = "newReqErr" -> surl
                  [] o \in {"doErr", "ctxErr"} -> stripPassword(surl)
                  [] OTHER -> NoURL]

\* faulty variant: the body-read failure path forgets its failureLog entry
recordFailure_lossy(log, surl, o, legacy) ==
    IF o = "readErr" THEN log
    ELSE Append(log, failureEntry(surl, o, legacy))

\* failureLog = append(failureLog, ...): one entry for the peer that failed
recordFailure(log, surl, o, legacy) ==
    Append(log, failureEntry(surl, o, legacy))

\* the aggregate error returned when the loop ends without a 200
allPeersFailed(log) == [body |-> NoBody, err |-> ErrAllPeers, failureLog |-> log]

\* the executor call of frame f has returned r: the handler runs to its end.
\* With racy set, the assignment conn.cluster = rc that ends a refresh is not
\* one step: it is a plain struct copy, written field by field (StoreField).
Finish(f, r, racy) ==
    LET a == afterCall(conn, f, r)
    IN  IF racy /\ f.op \in RefreshOps /\ a.result.err = NoErr
        THEN /\ conn' = conn
             /\ pc' = "store"
             /\ call' = [f EXCEPT !.old = conn.cluster, !.rc = a.conn.cluster, !.stored = {}]
             /\ ret' = r
             /\ result' = a.result
        ELSE Return(a.conn, a.result, r, f)

AttemptWith(racy) ==
    /\ pc = "call"
    /\ LET f == call
           peer == f.peers[f.i]
           surl == assembleURL(conn, f.apiOp, peer)
       IN  \E o \in (IF ~urlParses(surl) THEN {"newReqErr"}
                     ELSE IF ctxDone THEN {"ctxErr"} ELSE Outcomes(f.method)) :
           \E b \in (IF o = "200" THEN Bodies(f.apiOp) ELSE {NoBody}) :
              /\ reqLog' = IF o = "newReqErr" THEN reqLog
                           ELSE Append(reqLog, [slot |-> f.i, peer |-> peer, url |-> surl,
                                                outcome |-> o, body |-> b])
              /\ ctxDone' = ctxDone
              /\ trace(attemptTrace(surl, o))
              /\ UNCHANGED <<rd, fn>>
              /\ IF statusOK(o)
                 THEN Finish(f, [body |-> b, err |-> NoErr, failureLog |-> <<>>], racy)
                 ELSE LET log2 == recordFailure(f.failureLog, surl, o, f.legacy)
                      IN  IF loopStep(f.i, o) > Len(f.peers)
                          THEN Finish([f EXCEPT !.failureLog = log2], allPeersFailed(log2), racy)
                          ELSE /\ call' = [f EXCEPT !.i = loopStep(f.i, o), !.failureLog = log2]
                               /\ UNCHANGED <<conn, pc, ret, result>>

Attempt == AttemptWith(FALSE)

\* the caller cancels the context of the operation in flight
CancelContext ==
    /\ pc = "call"
    /\ ~ctxDone
    /\ ctxDone' = TRUE
    /\ UNCHANGED <<conn, pc, call, reqLog, ret, result, rd, fn, tracer>>

----------------------------------------------------------------------------
(* Public operations *)

\* OpenContext for the connection string made of first URL u and seed URLs seeds
OpenWith(u, seeds) ==
    /\ pc = "new"
    /\ UNCHANGED rd
    /\ LET i == initConnection(NewConn, u)
           c == addSeeds(i.conn, seeds)
       IN  /\ trace(openTrace(u, i))
           /\ IF i.err # NoErr
              THEN Immediate(i.conn, Result("Open", i.err, <<>>, NoBody))
              ELSE IF c.disableClusterDiscovery
              THEN Immediate(c, Result("Open", NoErr, <<>>, NoBody))
              ELSE Enter(c, "Open", "api_NODES", "GET", FALSE)

OpenContext ==
    /\ pc = "new"
    /\ \E u \in ConnURLs, seeds \in SeqUpTo(Hosts, MaxSeeds) : OpenWith(u, seeds)
    /\ UNCHANGED fn

Close ==
    /\ pc = "idle"
    /\ UNCHANGED <<rd, fn, tracer>>
    /\ Immediate(closeConn(conn), Result("Close", NoErr, <<>>, NoBody))

ConsistencyLevel ==
    /\ pc = "idle"
    /\ UNCHANGED <<rd, fn, tracer>>
    /\ IF closedCheck(conn)
       THEN Immediate(conn, Result("ConsistencyLevel", ErrClosed, <<>>, NoBody))
       ELSE Immediate(conn, Result("ConsistencyLevel", NoErr,
                                   <<consistencyLevelNames[conn.consistencyLevel]>>, NoBody))

Leader ==
    /\ pc = "idle"
    /\ UNCHANGED <<rd, fn, tracer>>
    /\ IF closedCheck(conn)
       THEN Immediate(conn, Result("Leader", ErrClosed, <<>>, NoBody))
       ELSE IF conn.disableClusterDiscovery
       THEN Immediate(conn, Result("Leader", NoErr, leaderValue(conn), NoBody))
       ELSE Enter(conn, "Leader", "api_NODES", "GET", FALSE)

Peers ==
    /\ pc = "idle"
    /\ UNCHANGED <<rd, fn, tracer>>
    /\ IF closedCheck(conn)
       THEN Immediate(conn, Result("Peers", ErrClosed, <<>>, NoBody))
       ELSE IF conn.disableClusterDiscovery
       THEN Immediate(conn, Result("Peers", NoErr, conn.cluster.peerList, NoBody))
       ELSE Enter(conn, "Peers", "api_NODES", "GET", FALSE)

\* SetConsistencyLevel(levelDesired), the level given by name
SetConsistencyLevelWith(levelDesired) ==
    /\ pc = "idle"
    /\ UNCHANGED <<rd, fn, tracer>>
    /\ IF closedCheck(conn)
       THEN Immediate(conn, Result("SetConsistencyLevel", ErrClosed, <<>>, NoBody))
       ELSE IF hasLevel(levelDesired)
       THEN Immediate([conn EXCEPT !.consistencyLevel = consistencyLevels(levelDesired)],
                      Result("SetConsistencyLevel", NoErr, <<>>, NoBody))
       ELSE Immediate(conn, Result("SetConsistencyLevel", ErrUnknownLevel, <<>>, NoBody))

SetConsistencyLevel == \E levelDesired \in LevelNames \cup {"bogus"} : SetConsistencyLevelWith(levelDesired)

\* SetConsistency(levelDesired), the level given by number
SetConsistencyWith(levelDesired) ==
    /\ pc = "idle"
    /\ UNCHANGED <<rd, fn, tracer>>
    /\ IF closedCheck(conn)
       THEN Immediate(conn, Result("SetConsistency", ErrClosed, <<>>, NoBody))
       ELSE IF levelDesired < ConsistencyLevelNone \/ levelDesired > ConsistencyLevelStrong
       THEN Immediate(conn, Result("SetConsistency", ErrUnknownLevel, <<>>, NoBody))
       ELSE Immediate([conn EXCEPT !.consistencyLevel = levelDesired],
                      Result("SetConsistency", NoErr, <<>>, NoBody))

SetConsistency == \E levelDesired \in -1 .. 3 : SetConsistencyWith(levelDesired)

SetExecutionWithTransaction ==
    /\ pc = "idle"
    /\ UNCHANGED <<rd, fn, tracer>>
    /\ \E state \in BOOLEAN :
          IF closedCheck(conn)
          THEN Immediate(conn, Result("SetExecutionWithTransaction", ErrClosed, <<>>, NoBody))
          ELSE Immediate([conn EXCEPT !.wantsTransactions = state],
                         Result("SetExecutionWithTransaction", NoErr, <<>>, NoBody))

\* the Write*, Queue* and Query* variants: the closed check, then rqliteApiPost
WriteOrQuery ==
    /\ pc = "idle"
    /\ UNCHANGED <<rd, fn, tracer>>
    /\ \E op \in PostOps, legacy \in BOOLEAN :
          IF conn.hasBeenClosed
          THEN Immediate(conn, Result(op, ErrClosed, <<>>, NoBody))
          ELSE Enter(conn, op, IF op = "Write" THEN "api_WRITE" ELSE "api_QUERY", "POST", legacy)

----------------------------------------------------------------------------
NoFn == [op |-> "none"]
NoReader == [pc |-> "off", leader |-> NoPeer, otherPeers |-> <<>>, cands |-> {}]

Init ==
    /\ conn = NewConn
    /\ pc = "new"
    /\ call = NoCall
    /\ ctxDone = FALSE
    /\ reqLog = <<>>
    /\ ret = NoRet
    /\ result = NoResult
    /\ rd = NoReader
    /\ fn = NoFn
    /\ tracer = TracerOff

\* Spec: the topology and the executor, on a connection opened with the
\* default consistency level
\* the connection was opened without error from a URL without credentials
\* and without timeout option
PlainOpen(c, res) ==
    /\ res.err \notin ConfigErrors
    /\ c.username = ""
    /\ c.timeout = defaultTimeout

OpenDefault ==
    /\ OpenContext
    /\ PlainOpen(conn', result')
    /\ conn'.consistencyLevel = ConsistencyLevelWeak

Next ==
    \/ OpenDefault
    \/ Close
    \/ ConsistencyLevel
    \/ Leader
    \/ Peers
    \/ WriteOrQuery
    \/ Attempt
    \/ CancelContext

Spec == Init /\ [][Next]_vars

\* ConfigSpec: every public operation, setters included, on a connection opened
\* from a single URL whose cluster has one node
OpenSingle ==
    /\ OpenContext
    /\ PlainOpen(conn', result')
    /\ conn'.cluster.otherPeers = <<>>
AttemptSingle == Attempt /\ conn'.cluster.otherPeers = <<>>

ConfigNext ==
    \/ OpenSingle
    \/ Close
    \/ ConsistencyLevel
    \/ Leader
    \/ Peers
    \/ SetConsistencyLevel
    \/ SetConsistency
    \/ SetExecutionWithTransaction
    \/ WriteOrQuery
    \/ AttemptSingle
    \/ CancelContext

ConfigSpec == Init /\ [][ConfigNext]_vars

----------------------------------------------------------------------------
(* ConcSpec: a second goroutine calls Peers() while the first one refreshes.    *)
(* Nothing in Connection synchronises the two: conn.cluster = rc is a plain     *)
(* struct assignment and Peers reads conn.cluster.leader and                    *)
(* conn.cluster.otherPeers in two separate loads.                               *)

ClusterFields == {"leader", "otherPeers", "peerList"}

AttemptRacy == AttemptWith(TRUE)

\* conn.cluster = rc, one field at a time, in whatever order the copy takes
StoreField ==
    /\ pc = "store"
    /\ \E fld \in ClusterFields \ call.stored :
          /\ conn' = [conn EXCEPT !.cluster[fld] = call.rc[fld]]
          /\ call' = [call EXCEPT !.stored = @ \cup {fld}]
          /\ pc' = IF call.stored \cup {fld} = ClusterFields THEN "idle" ELSE "store"
    /\ UNCHANGED <<ctxDone, reqLog, ret, result, rd, fn, tracer>>

\* the topologies that are complete at this instant: the one the connection
\* holds, or, while a store is under way, the one replaced and the one written
completeNow == IF pc = "store" THEN {call.old, call.rc} ELSE {conn.cluster}

\* goroutine 2 enters Peers(): open, discovery enabled, and its own
\* updateClusterInfo runs to its end without error (taken as one step)
RdRefresh ==
    /\ pc \in {"idle", "call"}
    /\ rd.pc = "off"
    /\ ~closedCheck(conn)
    /\ ~conn.disableClusterDiscovery
    /\ conn.cluster.peerList # <<>>
    /\ \E b \in NodesBodies :
          LET u == updateClusterInfo(conn.cluster, [body |-> b, err |-> NoErr, failureLog |-> <<>>])
          IN  /\ u.err = NoErr
              /\ conn' = [conn EXCEPT !.cluster = u.cluster]
    /\ rd' = [NoReader EXCEPT !.pc = "leader"]
    /\ UNCHANGED <<pc, call, ctxDone, reqLog, ret, result, fn, tracer>>

\* if conn.cluster.leader != "" { plist = append(plist, conn.cluster.leader) }
RdLeader ==
    /\ rd.pc = "leader"
    /\ rd' = [rd EXCEPT !.pc = "otherPeers", !.leader = conn.cluster.leader,
                        !.cands = @ \cup completeNow]
    /\ UNCHANGED <<conn, pc, call, ctxDone, reqLog, ret, result, fn, tracer>>

\* for _, p := range conn.cluster.otherPeers { plist = append(plist, p) }
RdOthers ==
    /\ rd.pc = "otherPeers"
    /\ rd' = [rd EXCEPT !.pc = "done", !.otherPeers = conn.cluster.otherPeers,
                        !.cands = @ \cup completeNow]
    /\ UNCHANGED <<conn, pc, call, ctxDone, reqLog, ret, result, fn, tracer>>

\* Peers returns plist on goroutine 2
RdReturn ==
    /\ rd.pc = "done"
    /\ rd' = NoReader
    /\ UNCHANGED <<conn, pc, call, ctxDone, reqLog, ret, result, fn, tracer>>

OpenDiscovering ==
    /\ OpenContext
    /\ PlainOpen(conn', result')
    /\ conn'.consistencyLevel = ConsistencyLevelWeak
    /\ ~conn'.disableClusterDiscovery
    /\ Len(conn'.cluster.peerList) = 1

ConcNext ==
    \/ OpenDiscovering
    \/ Leader
    \/ AttemptRacy
    \/ StoreField
    \/ RdRefresh
    \/ RdLeader
    \/ RdOthers
    \/ RdReturn

ConcSpec == Init /\ [][ConcNext]_vars

----------------------------------------------------------------------------
(* processNodeInfoBody, and the node loop of updateClusterInfo, as functions   *)
(* of a /nodes body: ParseSpec applies both to every body of up to             *)
(* MaxParseNodes records.                                                      *)

MaxParseNodes == 3

ErrUnmarshalNodes == "could not unmarshal /nodes response"

\* the records of NodeRecords, a node without api address that is not
\* reachable, and nodes whose api address carries no port
ParseRecords ==
    NodeRecords
    \cup {[api_addr |-> "", reachable |-> FALSE, leader |-> FALSE]}
    \cup {[api_addr |-> "http://host4", reachable |-> TRUE, leader |-> l] : l \in BOOLEAN}

ParseBodies ==
    {[kind |-> "nodes", nodes |-> s, id |-> 0] : s \in SeqUpTo(ParseRecords, MaxParseNodes)}
    \cup {GarbageBody}

\* the range loop of processNodeInfoBody; peers is its local slice
RECURSIVE processLoop(_, _, _, _)
processLoop(nodes, k, rc, peers) ==
    IF k > Len(nodes) THEN [err |-> NoErr, rc |-> [rc EXCEPT !.otherPeers = peers]]
    ELSE LET v == nodes[k] IN
         IF deadPeer(v) THEN processLoop(nodes, k + 1, rc, peers)
         ELSE LET u == urlParse(v.api_addr)
                  p == IF splitHostPortErr(u.Host) THEN withDefaultPort(u.Host) ELSE u.Host
              IN  IF u.err THEN [err |-> ErrParseAddr, rc |-> rc]
                  ELSE IF v.leader
                       THEN processLoop(nodes, k + 1, [rc EXCEPT !.leader = p], peers)
                       ELSE processLoop(nodes, k + 1, rc, Append(peers, p))

\* processNodeInfoBody(responseBody, rc): the error and what *rc holds afterwards
processNodeInfoBody(body, rc) ==
    IF body.kind # "nodes" THEN [err |-> ErrUnmarshalNodes, rc |-> rc]
    ELSE processLoop(body.nodes, 1, rc, <<>>)

ProcessNodeInfoBody ==
    /\ fn = NoFn
    /\ \E b \in ParseBodies :
          LET r == processNodeInfoBody(b, EmptyCluster)
          IN  fn' = [op |-> "processNodeInfoBody", body |-> b, err |-> r.err, rc |-> r.rc]
    /\ UNCHANGED <<conn, pc, call, ctxDone, reqLog, ret, result, rd, tracer>>

\* updateClusterInfo on a connection whose /nodes call returned body b
RefreshFromBody ==
    /\ fn = NoFn
    /\ \E b \in ParseBodies :
          LET u == updateClusterInfo(EmptyCluster, [body |-> b, err |-> NoErr, failureLog |-> <<>>])
          IN  fn' = [op |-> "updateClusterInfo", body |-> b, err |-> u.err, rc |-> u.cluster]
    /\ UNCHANGED <<conn, pc, call, ctxDone, reqLog, ret, result, rd, tracer>>

ParseNext ==
    \/ ProcessNodeInfoBody
    \/ RefreshFromBody

ParseSpec == Init /\ [][ParseNext]_vars

----------------------------------------------------------------------------
(* The ordering policies of makePeerList.  The default policy is               *)
(* makePeerList above.  The seed-favoring policy (makePeerList(true) of        *)
(* TestFavoredSeed) belongs to a cluster.go that is not among the sources: it  *)
(* is written from the specification, for the topologies it defines.          *)

MaxOthers == 3

\* seed first, then the leader if it is not the seed, then the other peers
\* without the seed
seedFirst(rc) ==
    <<rc.seed>>
    \o (IF rc.leader # rc.seed THEN <<rc.leader>> ELSE <<>>)
    \o SelectSeq(rc.otherPeers, LAMBDA p : p # rc.seed)

makePeerListFavor(rc, favorSeed) ==
    IF favorSeed THEN seedFirst(rc) ELSE makePeerList(rc)

\* the topologies open and refresh build (leader unknown or not, other peers
\* as the URL list or the node map gave them), each with a designated seed
Topologies ==
    {[leader |-> l, otherPeers |-> o, seed |-> sd] :
        l \in Hosts \cup {NoPeer}, o \in SeqUpTo(Hosts, MaxOthers), sd \in Hosts}

\* a topology as the specification defines it: a known leader and an ordered
\* set of other peers, the leader not among them
SpecTopology(rc) ==
    /\ rc.leader # NoPeer
    /\ \A i \in 1..Len(rc.otherPeers) :
          /\ rc.otherPeers[i] # rc.leader
          /\ \A j \in 1..Len(rc.otherPeers) : rc.otherPeers[i] = rc.otherPeers[j] => i = j

MakePeerList ==
    /\ fn = NoFn
    /\ \E rc \in Topologies, favorSeed \in BOOLEAN :
          /\ favorSeed => SpecTopology(rc)
          /\ fn' = [op |-> "makePeerList", rc |-> rc, favorSeed |-> favorSeed,
                    list |-> makePeerListFavor(rc, favorSeed)]
    /\ UNCHANGED <<conn, pc, call, ctxDone, reqLog, ret, result, rd, tracer>>

TopoNext ==
    \/ MakePeerList

TopoSpec == Init /\ [][TopoNext]_vars

----------------------------------------------------------------------------
(* UrlSpec: open from every first URL (malformed, with and without          *)
(* credentials and options), then requests, with the trace sink on or off.  *)

\* the first URL names host1:4001 or no host, at most one seed URL follows
OpenAnyURL ==
    /\ OpenContext
    /\ conn'.cluster.leader \in {NoPeer, "host1:4001", DefaultPeer}
    /\ conn'.cluster.otherPeers \in {<<>>, <<"host2:4002">>}

UrlNext ==
    \/ TraceOn
    \/ OpenAnyURL
    \/ WriteOrQuery
    \/ Attempt

UrlSpec == Init /\ [][UrlNext]_vars

-----------------------------------------------------------------------------
\* Opening alone, every connection string without credentials: the call is
\* recorded with the first URL and the seed URLs it was given.
OpenRecorded ==
    /\ pc = "new"
    /\ \E u \in ConnURLs, seeds \in SeqUpTo(Hosts, MaxSeeds) :
          /\ u.username = ""
          /\ u.password = ""
          /\ OpenWith(u, seeds)
          /\ fn' = [op |-> "Open", url |-> u, seeds |-> seeds]

OpenNext == \/ OpenRecorded \/ Attempt

OpenSpec == Init /\ [][OpenNext]_vars

-----------------------------------------------------------------------------
(* Statement: NewStatement and Append.  A statement is an object on the heap
   and callers hold its address; fn records the last call with its
   arguments, the receiver, the address returned, and the heap before and
   after. *)

MaxStmtLen == 2

\* the characters of a SQL text that matter here: the placeholder and any other
SqlChars == {"?", "x"}
ParamValues == {"a", "b"}
SqlTexts == SeqUpTo(SqlChars, MaxStmtLen)
ParamLists == SeqUpTo(ParamValues, MaxStmtLen)

NoWarning == [text |-> "", got |-> 0, expected |-> 0]

\* faulty variant: only the presence of a placeholder is counted
stringsCount_first(sql) == IF \E i \in 1..Len(sql) : sql[i] = "?" THEN 1 ELSE 0

\* strings.Count(sql, "?")
RECURSIVE stringsCount(_)
stringsCount(sql) ==
    IF sql = <<>> THEN 0
    ELSE (IF Head(sql) = "?" THEN 1 ELSE 0) + stringsCount(Tail(sql))

\* NewStatement(sql, params...): the Statement it allocates
NewStatement(sql, params) ==
    LET paramsCount == stringsCount(sql)
        warn == IF paramsCount # Len(params)
                THEN [text |-> "Unexpected parameters count: %d, expected: %d",
                      got |-> Len(params), expected |-> paramsCount]
                ELSE NoWarning
    IN  [Sql |-> sql, Parameters |-> params, Warning |-> warn]

\* s.Sql += sql; s.Parameters = append(s.Parameters, params...)
stmtAppend(st, sql, params) ==
    [st EXCEPT !.Sql = @ \o sql, !.Parameters = @ \o params]

\* a caller builds a statement: a new object, its address returned
NewStatementCall ==
    /\ fn = NoFn
    /\ \E sql \in SqlTexts, params \in ParamLists :
          fn' = [op |-> "NewStatement", sql |-> sql, params |-> params, recv |-> 0,
                 before |-> <<>>, heap |-> <<NewStatement(sql, params)>>, ret |-> 1]
    /\ UNCHANGED <<conn, pc, call, ctxDone, reqLog, ret, result, rd, tracer>>

\* a holder of the statement at address a calls a.Append(sql, params...): the
\* object is written in place and the receiver's own address is returned
AppendCall ==
    /\ fn.op \in {"NewStatement", "Append"}
    /\ \E a \in 1..Len(fn.heap), sql \in SqlTexts, params \in ParamLists :
          /\ Len(fn.heap[a].Sql) + Len(sql) <= MaxStmtLen
          /\ Len(fn.heap[a].Parameters) + Len(params) <= MaxStmtLen
          /\ fn' = [op |-> "Append", sql |-> sql, params |-> params, recv |-> a,
                    before |-> fn.heap,
                    heap |-> [fn.heap EXCEPT ![a] = stmtAppend(@, sql, params)],
                    ret |-> a]
    /\ UNCHANGED <<conn, pc, call, ctxDone, reqLog, ret, result, rd, tracer>>

StmtNext == \/ NewStatementCall \/ AppendCall

StmtSpec == Init /\ [][StmtNext]_vars

-----------------------------------------------------------------------------
(* Encoding a batch: the request body rqliteApiPost builds.  A Go value is a
   record of its dynamic type and its content; a JSON value is a record of
   its JSON kind and its content (elems for an array). *)

MaxArgs == 2
MaxBatch == 2

GoValues ==
    {[go |-> "string", v |-> "bob"],
     [go |-> "int", v |-> "1"],
     [go |-> "bytes", v |-> "hi"]}

\* base64.StdEncoding of the byte slices of the model
base64(v) == CASE v = "hi" -> "aGk=" [] OTHER -> ""

jString(v) == [j |-> "string", v |-> v, elems |-> <<>>]
jNumber(v) == [j |-> "number", v |-> v, elems |-> <<>>]
jArray(elems) == [j |-> "array", v |-> "", elems |-> elems]

\* json.Marshal of one argument: a []byte is written as a base64 string
jsonValue(g) ==
    CASE g.go = "string" -> jString(g.v)
      [] g.go = "int"    -> jNumber(g.v)
      [] g.go = "bytes"  -> jString(base64(g.v))

SqlTemplates == {"INSERT INTO t VALUES (?, ?)", "SELECT 1"}
ParameterizedStatements ==
    {[Query |-> q, Arguments |-> a] : q \in SqlTemplates, a \in SeqUpTo(GoValues, MaxArgs)}

\* faulty variant: the arguments are written before the SQL text
formattedStatement_argsFirst(statement) == Append(statement.Arguments, [go |-> "string", v |-> statement.Query])

\* formattedStatement: statement.Query, then statement.Arguments...
formattedStatement(statement) == <<[go |-> "string", v |-> statement.Query]>> \o statement.Arguments

\* json.Marshal(formattedStatements): the body of the POST
marshalStatements(sqlStatements) ==
    jArray([i \in 1..Len(sqlStatements) |->
              LET fs == formattedStatement(sqlStatements[i])
              IN  jArray([k \in 1..Len(fs) |-> jsonValue(fs[k])])])

\* rqliteApiPost up to the call of the executor: the body it is about to send
EncodeBatch ==
    /\ fn = NoFn
    /\ \E stmts \in SeqUpTo(ParameterizedStatements, MaxBatch) :
          fn' = [op |-> "rqliteApiPost", stmts |-> stmts, body |-> marshalStatements(stmts)]
    /\ UNCHANGED <<conn, pc, call, ctxDone, reqLog, ret, result, rd, tracer>>

EncodeNext == EncodeBatch

EncodeSpec == Init /\ [][EncodeNext]_vars

-----------------------------------------------------------------------------
(* QueryResult: the forward-only cursor over the rows of one query result.
   fn holds the result object with the last call made on it: what the call
   returned, the position before it, and how the earlier Next() calls ended. *)

MaxRows == 2

ErrCursor == "cursor is not on a row"

RowValues == {"Ferengi", "Cardassian", "Vulcan"}
NoRow == "no row"

\* a fresh result: the position is before the first row
newQueryResult(rows) == [values |-> rows, rowNumber |-> -1]

\* the cursor is on a row
onRow(qr) == qr.rowNumber >= 0 /\ qr.rowNumber < Len(qr.values)

\* faulty variant: past the last row the cursor starts again at the first
qrNext_wrap(qr) ==
    IF qr.rowNumber + 1 < Len(qr.values)
    THEN [ok |-> TRUE, qr |-> [qr EXCEPT !.rowNumber = @ + 1]]
    ELSE [ok |-> FALSE, qr |-> [qr EXCEPT !.rowNumber = -1]]

\* Next(): one row forward while there is one; past the last row it stays
qrNext(qr) ==
    IF qr.rowNumber + 1 < Len(qr.values)
    THEN [ok |-> TRUE, qr |-> [qr EXCEPT !.rowNumber = @ + 1]]
    ELSE [ok |-> FALSE, qr |-> [qr EXCEPT !.rowNumber = Len(qr.values)]]

\* faulty variant: off a row the zero value is returned without error
qrRead_zero(qr) ==
    IF onRow(qr) THEN [err |-> NoErr, row |-> qr.values[qr.rowNumber + 1]]
    ELSE [err |-> NoErr, row |-> NoRow]

\* Scan(), Map(): the values of the current row, or the cursor-state error
qrRead(qr) ==
    IF onRow(qr) THEN [err |-> NoErr, row |-> qr.values[qr.rowNumber + 1]]
    ELSE [err |-> ErrCursor, row |-> NoRow]

QueryOne ==
    /\ fn = NoFn
    /\ \E rows \in SeqUpTo(RowValues, MaxRows) :
          fn' = [op |-> "QueryOne", qr |-> newQueryResult(rows), ok |-> FALSE, err |-> NoErr,
                 row |-> NoRow, before |-> -1, trues |-> 0, falses |-> 0]
    /\ UNCHANGED <<conn, pc, call, ctxDone, reqLog, ret, result, rd, tracer>>

QrNext ==
    /\ fn.op \in {"QueryOne", "Next", "Scan", "Map"}
    /\ fn.falses < 2
    /\ LET r == qrNext(fn.qr)
       IN  fn' = [fn EXCEPT !.op = "Next", !.qr = r.qr, !.ok = r.ok, !.err = NoErr,
                            !.row = NoRow, !.before = fn.qr.rowNumber,
                            !.trues = IF r.ok THEN @ + 1 ELSE @,
                            !.falses = IF r.ok THEN @ ELSE @ + 1]
    /\ UNCHANGED <<conn, pc, call, ctxDone, reqLog, ret, result, rd, tracer>>

QrRead ==
    /\ fn.op \in {"QueryOne", "Next", "Scan", "Map"}
    /\ \E op \in {"Scan", "Map"} :
          LET r == qrRead(fn.qr)
          IN  fn' = [fn EXCEPT !.op = op, !.ok = FALSE, !.err = r.err, !.row = r.row,
                               !.before = fn.qr.rowNumber]
    /\ UNCHANGED <<conn, pc, call, ctxDone, reqLog, ret, result, rd, tracer>>

CursorNext == \/ QueryOne \/ QrNext \/ QrRead

CursorSpec == Init /\ [][CursorNext]_vars

-----------------------------------------------------------------------------
(* Decoding a batch response: the "results" array of the response body has
   one entry per statement, a result payload or an error payload. *)

MaxResults == 3

\* the entries the store can answer for one statement: error is empty for a
\* result payload; n is rows_affected of a write, the number of rows of a query
ResultPayloads ==
    {[error |-> "", n |-> 1], [error |-> "", n |-> 2],
     [error |-> "near \"CTHULHU\": syntax error", n |-> 0],
     [error |-> "no such table: t", n |-> 0]}

\* the slot decoded from one entry: its error, or its result
decodeSlot(kind, payload) ==
    IF payload.error # ""
    THEN [kind |-> kind, Err |-> payload.error, n |-> 0]
    ELSE [kind |-> kind, Err |-> NoErr, n |-> payload.n]

\* faulty variant: decoding stops at the first entry that holds an error
RECURSIVE decodeResults_abort(_, _)
decodeResults_abort(kind, entries) ==
    IF entries = <<>> THEN <<>>
    ELSE IF Head(entries).error # "" THEN <<decodeSlot(kind, Head(entries))>>
    ELSE <<decodeSlot(kind, Head(entries))>> \o decodeResults_abort(kind, Tail(entries))

\* one slot per entry, in the order of the response
RECURSIVE decodeResults(_, _)
decodeResults(kind, entries) ==
    IF entries = <<>> THEN <<>>
    ELSE <<decodeSlot(kind, Head(entries))>> \o decodeResults(kind, Tail(entries))

DecodeBatch ==
    /\ fn = NoFn
    /\ \E kind \in {"write", "query"}, entries \in SeqUpTo(ResultPayloads, MaxResults) :
          fn' = [op |-> "decode", kind |-> kind, entries |-> entries,
                 slots |-> decodeResults(kind, entries)]
    /\ UNCHANGED <<conn, pc, call, ctxDone, reqLog, ret, result, rd, tracer>>

DecodeNext == DecodeBatch

DecodeSpec == Init /\ [][DecodeNext]_vars

-----------------------------------------------------------------------------
(* assembleURL alone: every setting of the connection it reads, every API
   operation *)

AssembleInputs ==
    {[NewConn EXCEPT !.wantsHTTPS = h, !.username = cr.username, !.password = cr.password,
                     !.consistencyLevel = l, !.wantsTransactions = t, !.wantsQueueing = q] :
        h \in BOOLEAN, cr \in Credentials, l \in 0..2, t \in BOOLEAN, q \in BOOLEAN}

AssembleURL ==
    /\ fn = NoFn
    /\ \E c \in AssembleInputs, apiOp \in ApiOps, p \in Hosts :
          fn' = [op |-> "assembleURL", conn |-> c, apiOp |-> apiOp, peer |-> p,
                 url |-> assembleURL(c, apiOp, p)]
    /\ UNCHANGED <<conn, pc, call, ctxDone, reqLog, ret, result, rd, tracer>>

AssembleNext == AssembleURL

AssembleSpec == Init /\ [][AssembleNext]_vars

-----------------------------------------------------------------------------
(* The peers of a connection string: the host of the first URL and of every
   further URL, with or without a port *)

\* the host part of a URL: none, host and port, or a host alone
URLHosts == Hosts \cup {"", "host4"}

\* the first URL with host h, no user-info and no option
hostURL(h) ==
    [form |-> "ok", username |-> "", password |-> "", host |-> h,
     level |-> "", timeout |-> "", dcd |-> ""]

OpenPeers ==
    /\ fn = NoFn
    /\ \E h \in URLHosts, seeds \in SeqUpTo(URLHosts \ {""}, MaxSeeds) :
          LET i == initConnection(NewConn, hostURL(h))
              c == addSeeds(i.conn, seeds)
          IN  fn' = [op |-> "OpenPeers", host |-> h, seeds |-> seeds, err |-> i.err,
                     leader |-> c.cluster.leader, otherPeers |-> c.cluster.otherPeers,
                     peerList |-> c.cluster.peerList]
    /\ UNCHANGED <<conn, pc, call, ctxDone, reqLog, ret, result, rd, tracer>>

PeersNext == OpenPeers

PeersSpec == Init /\ [][PeersNext]_vars

-----------------------------------------------------------------------------
(* updateClusterInfo with the status endpoint: what it does with the return
   of rqliteApiGet(api_STATUS) and, when it gets there, with the return of
   rqliteApiGet(api_NODES) *)

ErrStatusCall == "cluster-info: could not determine leader from API nodes call"
ErrUnmarshalStatus == "json: cannot unmarshal /status response"
Panic == "panic: interface conversion"

\* the return of rqliteApiGet(api_STATUS): an error, or a body.  A body is
\* garbage, or a JSON object: with or without the store section, store.leader
\* an object (with or without node_id), a string, or absent; addr is what
\* store.metadata holds as api_addr under the leader's id ("" when nothing)
StatusReturns ==
    {[err |-> ErrAllPeers, kind |-> "none", store |-> FALSE, leader |-> "absent", addr |-> ""],
     [err |-> NoErr, kind |-> "garbage", store |-> FALSE, leader |-> "absent", addr |-> ""],
     [err |-> NoErr, kind |-> "status", store |-> FALSE, leader |-> "absent", addr |-> ""]}
    \cup {[err |-> NoErr, kind |-> "status", store |-> TRUE, leader |-> l, addr |-> a] :
             l \in {"absent", "object", "objectNoId", "string"}, a \in {"", "host1:4001"}}

\* the return of rqliteApiGet(api_NODES)
NodesReturns ==
    {[err |-> ErrAllPeers, body |-> NoBody]}
    \cup {[err |-> NoErr, body |-> b] : b \in NodesBodies}

\* the status half: the error it returns, or the leader it found ("" if none)
statusLeader(sr) ==
    IF sr.err # NoErr THEN [err |-> ErrStatusCall, leader |-> NoPeer]
    ELSE IF sr.kind = "garbage" THEN [err |-> ErrUnmarshalStatus, leader |-> NoPeer]
    ELSE IF ~sr.store \/ sr.leader \in {"absent", "objectNoId"} THEN [err |-> Panic, leader |-> NoPeer]
    ELSE [err |-> NoErr, leader |-> sr.addr]

\* updateClusterInfo: the endpoints it asked, the error it returns and the
\* cluster the connection holds afterwards
updateClusterInfoStatus(old, useStatusApi, sr, nr) ==
    LET s == IF useStatusApi THEN statusLeader(sr) ELSE [err |-> NoErr, leader |-> NoPeer]
        first == IF useStatusApi THEN <<"api_STATUS">> ELSE <<>>
    IN  IF s.err # NoErr THEN [calls |-> first, err |-> s.err, cluster |-> old]
        ELSE IF s.leader # NoPeer
        THEN [calls |-> first, err |-> NoErr,
              cluster |-> cachePeerList([EmptyCluster EXCEPT !.leader = s.leader])]
        ELSE LET u == updateClusterInfo(old, nr)
             IN  [calls |-> Append(first, "api_NODES"), err |-> u.err, cluster |-> u.cluster]

RefreshWithStatus ==
    /\ fn = NoFn
    /\ \E useStatusApi \in BOOLEAN, sr \in StatusReturns, nr \in NodesReturns :
          LET old == cachePeerList([EmptyCluster EXCEPT !.leader = "host2:4002"])
              u == updateClusterInfoStatus(old, useStatusApi, sr, nr)
          IN  fn' = [op |-> "refresh", useStatusApi |-> useStatusApi, sr |-> sr, nr |-> nr,
                     calls |-> u.calls, err |-> u.err, rc |-> u.cluster]
    /\ UNCHANGED <<conn, pc, call, ctxDone, reqLog, ret, result, rd, tracer>>

StatusNext == RefreshWithStatus

StatusSpec == Init /\ [][StatusNext]_vars

-----------------------------------------------------------------------------
\* LiveSpec: the executor's loop scheduled: a call in flight takes its next
\* iteration (the goroutine running rqliteApiCall is not starved).  The
\* connection is opened either on a fixed seed list (discovery disabled) or
\* on one URL whose cluster is discovered.
OpenLive ==
    /\ OpenDefault
    /\ conn'.disableClusterDiscovery \/ Len(conn'.cluster.peerList) <= 1

LiveNext ==
    \/ OpenLive
    \/ Leader
    \/ Peers
    \/ WriteOrQuery
    \/ Attempt
    \/ CancelContext

LiveSpec == Init /\ [][LiveNext]_vars /\ WF_vars(Attempt)

-----------------------------------------------------------------------------
(* rqliteApiGet and rqliteApiPost called with every apiOperation, on
   connections whose peer list may have been emptied by a refresh *)

\* faulty variant: the operation kind is not looked at
acceptsGet_any(apiOp) == TRUE

\* rqliteApiGet: "Allow only api_STATUS and api_NODES now"
acceptsGet(apiOp) == apiOp \in {"api_STATUS", "api_NODES"}

\* rqliteApiPost: "Allow only api_QUERY and api_WRITE"
acceptsPost(apiOp) == apiOp \in {"api_QUERY", "api_WRITE"}

rqliteApiGet(apiOp) ==
    IF ~acceptsGet(apiOp)
    THEN Immediate(conn, Result("rqliteApiGet", ErrInvalidGet, <<>>, NoBody))
    ELSE Enter(conn, "rqliteApiGet", apiOp, "GET", FALSE)

rqliteApiPost(apiOp) ==
    IF ~acceptsPost(apiOp)
    THEN Immediate(conn, Result("rqliteApiPost", ErrInvalidPost, <<>>, NoBody))
    ELSE Enter(conn, "rqliteApiPost", apiOp, "POST", FALSE)

\* fn records the operation kind the function was called with
ApiGet ==
    /\ pc = "idle"
    /\ \E apiOp \in ApiOps :
          /\ rqliteApiGet(apiOp)
          /\ fn' = [op |-> "rqliteApiGet", apiOp |-> apiOp]
    /\ UNCHANGED <<rd, tracer>>

ApiPost ==
    /\ pc = "idle"
    /\ \E apiOp \in ApiOps :
          /\ rqliteApiPost(apiOp)
          /\ fn' = [op |-> "rqliteApiPost", apiOp |-> apiOp]
    /\ UNCHANGED <<rd, tracer>>

\* a refresh through Leader keeps the record of the last low-level call out
LeaderRefresh == Leader /\ fn' = NoFn

ExecNext ==
    \/ OpenLive
    \/ LeaderRefresh
    \/ ApiGet
    \/ ApiPost
    \/ Attempt

ExecSpec == Init /\ [][ExecNext]_vars

-----------------------------------------------------------------------------
\* StaticSpec: the recorded open followed by Leader, Peers, writes and
\* queries: a URL list with cluster discovery disabled, or one URL with any
\* value of the option
OpenStatic ==
    /\ OpenRecorded
    /\ fn'.url.level = ""
    /\ fn'.url.timeout = ""
    /\ fn'.url.dcd = "true" \/ fn'.seeds = <<>>

StaticNext ==
    \/ OpenStatic
    \/ Leader
    \/ Peers
    \/ WriteOrQuery
    \/ Attempt

StaticSpec == Init /\ [][StaticNext]_vars

----------------------------------------------------------------------------
(* Claims *)

ClosedCheckedOps ==
    {"ConsistencyLevel", "Leader", "Peers", "SetConsistencyLevel", "SetConsistency",
     "SetExecutionWithTransaction", "Write", "Query"}

\* C1: once the connection is closed, every public operation returns ErrClosed
\* and makes no request: no executor call is in flight, and the last operation,
\* which was entered after Close, failed with ErrClosed with an empty request log.
C1_ClosedFailsWithoutIO ==
    conn.hasBeenClosed =>
        /\ pc = "idle"
        /\ result.op \in ClosedCheckedOps =>
              /\ result.err = ErrClosed
              /\ reqLog = <<>>
              /\ ret = NoRet

\* a Leader call on a closed connection that would otherwise have refreshed
C1_Witness ==
    /\ conn.hasBeenClosed
    /\ result.op = "Leader"
    /\ result.err = ErrClosed
    /\ ~conn.disableClusterDiscovery
    /\ conn.cluster.peerList # <<>>

\* C2: closing is permanent: no step of any operation takes a closed
\* connection back to open (a further Close included).
C2_ClosePermanent == [][conn.hasBeenClosed => conn'.hasBeenClosed]_vars

\* a setter called on a connection that is closed
C2_Witness ==
    /\ conn.hasBeenClosed
    /\ result.op = "SetConsistency"

\* C3: the executor contacts the peers in the order of the cached peer list,
\* contacts a peer only if every peer before it failed, and returns the body of
\* the first peer that answers 200, without contacting another peer.
C3_FirstSuccessInOrder ==
    LET n == Len(reqLog) IN
    /\ n <= Len(call.peers)
    /\ (pc = "call" /\ ~call.legacy) => call.peers = conn.cluster.peerList
    /\ call.op # "none" =>
          call.peers = IF call.legacy THEN makePeerList(call.before) ELSE call.before.peerList
    /\ \A k \in 1 .. n : reqLog[k].peer = call.peers[k] /\ reqLog[k].slot = k
    /\ \A k \in 1 .. n - 1 : reqLog[k].outcome # "200"
    /\ (n > 0 /\ reqLog[n].outcome = "200") =>
          /\ pc = "idle"
          /\ ret.err = NoErr
          /\ ret.body = reqLog[n].body
    /\ (pc = "idle" /\ n > 0 /\ ret.err = NoErr) => reqLog[n].outcome = "200"
    /\ (pc = "idle" /\ n > 0 /\ ret.err # NoErr) => n = Len(call.peers)

\* the second of three peers answered 200 after the first failed
C3_Witness ==
    /\ pc = "idle"
    /\ Len(call.peers) = 3
    /\ Len(reqLog) = 2
    /\ reqLog[2].outcome = "200"
    /\ ret.err = NoErr
    /\ ret.body = reqLog[2].body
    /\ ret.body.kind = "results"

\* C4 (as claimed): a 301 answer to a POST does not consume the peer slot: the
\* request is issued again in the same slot, so the next request, if any, is in
\* that slot, and the call does not end on the 301.
C4_RedirectKeepsSlot ==
    \A k \in 1 .. Len(reqLog) :
        reqLog[k].outcome = "301" =>
            IF k < Len(reqLog) THEN reqLog[k + 1].slot = reqLog[k].slot
            ELSE pc = "call"

\* C5 (as claimed): once the context is cancelled no further peer is attempted,
\* and the call does not return the all-peers-failed aggregate error.
C5_CancelStopsCall ==
    \A k \in 1 .. Len(reqLog) :
        reqLog[k].outcome = "ctxErr" =>
            /\ k = Len(reqLog)
            /\ pc = "idle" => ret.err # ErrAllPeers

\* C6: when every peer fails, the aggregate error lists exactly one entry per
\* peer of the list, in attempt order: entry k names the k-th peer and the way
\* its request failed.
C6_OneEntryPerPeer ==
    ret.err = ErrAllPeers =>
        /\ Len(ret.failureLog) = Len(call.peers)
        /\ Len(reqLog) = Len(call.peers)
        /\ \A k \in 1 .. Len(ret.failureLog) :
              /\ ret.failureLog[k].peer = call.peers[k]
              /\ ret.failureLog[k].cause = failureCause(reqLog[k].outcome, call.legacy)

\* all three peers of a 3-peer list failed, one of them on the body read
C6_Witness ==
    /\ ret.err = ErrAllPeers
    /\ Len(call.peers) = 3
    /\ Len(ret.failureLog) = 3
    /\ \E k \in 1 .. 3 : reqLog[k].outcome = "readErr"

\* C7 (as claimed): within one call each peer receives at most one request.
C7_AtMostOneRequestPerPeer ==
    \A j, k \in 1 .. Len(reqLog) : j # k => reqLog[j].peer # reqLog[k].peer

\* C8: a refresh that returns an error, from the discovery request or from the
\* parse of its answer, leaves leader, other peers and cached list as they were.
RefreshErrors == {ErrNoLeader, ErrUnmarshal, ErrParseAddr}
C8_FailedRefreshKeepsTopology ==
    (pc = "idle" /\ result.op \in RefreshOps /\ result.err \in RefreshErrors) =>
        conn.cluster = call.before

\* Leader failed on an unparsable api address, the connection knowing peers
C8_Witness ==
    /\ pc = "idle"
    /\ result.op = "Leader"
    /\ result.err = ErrParseAddr
    /\ conn.cluster.peerList # <<>>
    /\ conn.cluster = call.before

\* C9 (as claimed): a reader running while updateClusterInfo replaces the
\* topology sees the complete old topology or the complete new one: the leader
\* and the other peers Peers() has read both belong to one topology that was
\* complete at one of its two reads.
C9_NoTornRead ==
    rd.pc = "done" =>
        \E c \in rd.cands : rd.leader = c.leader /\ rd.otherPeers = c.otherPeers

Occurrences(l, p) == Cardinality({i \in 1..Len(l) : l[i] = p})

\* the list l starts with the leader of rc and holds every known peer of rc
\* (its leader, its other peers) exactly once, and nothing else
LeaderFirstEachOnce(rc, l) ==
    /\ l # <<>>
    /\ l[1] = rc.leader
    /\ \A p \in {rc.leader} \cup {rc.otherPeers[i] : i \in 1..Len(rc.otherPeers)} :
          Occurrences(l, p) = 1
    /\ \A i \in 1..Len(l) :
          l[i] = rc.leader \/ \E j \in 1..Len(rc.otherPeers) : rc.otherPeers[j] = l[i]

\* C11 (as claimed): whenever the connection's topology has a non-empty leader,
\* the ordered peer list of the default policy (the list makePeerList computes
\* and the cached list PeerList returns) has the leader at index 0 and holds
\* every known peer exactly once, after open and after every refresh.
C11_LeaderFirstEachPeerOnce ==
    conn.cluster.leader # NoPeer =>
        /\ LeaderFirstEachOnce(conn.cluster, makePeerList(conn.cluster))
        /\ LeaderFirstEachOnce(conn.cluster, PeerList(conn.cluster))

\* the host:port a /nodes api address names
HostPortOf(a) ==
    CASE a = "http://host1:4001" -> "host1:4001"
      [] a = "http://host2:4002" -> "host2:4002"
      [] a = "http://host3:4003" -> "host3:4003"

ParseOps == {"processNodeInfoBody", "updateClusterInfo"}

\* the nodes of a body that are reachable and have an api address
LiveNodes(nodes) == SelectSeq(nodes, LAMBDA v : v.reachable /\ v.api_addr # "")

RECURSIVE PeersOf(_)
PeersOf(nodes) ==
    IF nodes = <<>> THEN <<>>
    ELSE <<HostPortOf(Head(nodes).api_addr)>> \o PeersOf(Tail(nodes))

\* a body the store can send: every live node's api address names host and
\* port, and at most one live node is flagged leader
WellFormedNodes(nodes) ==
    /\ \A i \in 1..Len(nodes) :
          (nodes[i].reachable /\ nodes[i].api_addr # "") =>
              nodes[i].api_addr \in {APIAddr(h) : h \in Hosts}
    /\ Len(SelectSeq(LiveNodes(nodes), LAMBDA v : v.leader)) <= 1

\* C12: parsing a node-list response (processNodeInfoBody, and the same loop in
\* updateClusterInfo) discards every node that is not reachable or has no api
\* address, makes the live node flagged leader the leader peer, as the
\* host:port of its api address, and makes every other live node an other peer.
C12_ParseNodes ==
    (fn.op \in ParseOps /\ fn.err = NoErr /\ WellFormedNodes(fn.body.nodes)) =>
        LET live == LiveNodes(fn.body.nodes)
            leaders == SelectSeq(live, LAMBDA v : v.leader)
            others == SelectSeq(live, LAMBDA v : ~v.leader)
        IN  /\ fn.rc.leader = IF leaders = <<>> THEN NoPeer ELSE PeersOf(leaders)[1]
            /\ fn.rc.otherPeers = PeersOf(others)

\* the spec's example: node 1 a reachable follower at host1:4001, node 2 the
\* reachable leader at host3:4003, node 3 unreachable without api address
C12_Witness ==
    /\ fn.op = "processNodeInfoBody"
    /\ fn.err = NoErr
    /\ fn.body.nodes = << [api_addr |-> "http://host1:4001", reachable |-> TRUE, leader |-> FALSE],
                          [api_addr |-> "http://host3:4003", reachable |-> TRUE, leader |-> TRUE],
                          [api_addr |-> "", reachable |-> FALSE, leader |-> FALSE] >>
    /\ fn.rc.leader = "host3:4003"
    /\ fn.rc.otherPeers = <<"host1:4001">>

\* the seed-favoring half of C13: seed at index 0, the leader, if it is not
\* the seed, at index 1
SeedThenLeader ==
    (fn.op = "makePeerList" /\ fn.favorSeed) =>
        /\ fn.list[1] = fn.rc.seed
        /\ fn.rc.leader # fn.rc.seed => (Len(fn.list) >= 2 /\ fn.list[2] = fn.rc.leader)

\* the default half of C13: leader at index 0, and every other peer, the seed
\* among them, at the position it has among the other peers
LeaderThenNatural ==
    (fn.op = "makePeerList" /\ ~fn.favorSeed) =>
        /\ fn.list # <<>>
        /\ fn.list[1] = fn.rc.leader
        /\ Len(fn.list) = 1 + Len(fn.rc.otherPeers)
        /\ \A i \in 1..Len(fn.rc.otherPeers) : fn.list[i + 1] = fn.rc.otherPeers[i]

KnownPeers(rc) ==
    ({rc.leader} \cup {rc.otherPeers[i] : i \in 1..Len(rc.otherPeers)}) \ {NoPeer}

\* C14 (as claimed): under both policies the ordered list holds every known
\* peer (leader, other peers, and the seed when it is favored) exactly once,
\* also when the seed is the leader or is one of the other peers.
C14_EachPeerOnce ==
    fn.op = "makePeerList" =>
        LET known == KnownPeers(fn.rc) \cup (IF fn.favorSeed THEN {fn.rc.seed} ELSE {})
        IN  /\ \A p \in known : Occurrences(fn.list, p) = 1
            /\ \A i \in 1..Len(fn.list) : fn.list[i] \in known

\* C15 (as claimed): no failure entry of the aggregate error an execute call
\* returns spells out the connection's password, neither in the URL the entry
\* starts with nor in the URL its error text quotes.
C15_ErrorsRedacted ==
    (ret.err = ErrAllPeers /\ conn.password # "") =>
        \A i \in 1..Len(ret.failureLog) :
            /\ ret.failureLog[i].url.password # conn.password
            /\ ret.failureLog[i].errURL.password # conn.password

\* C16 (as claimed): no line delivered to the trace sink during open, URL
\* assembly or request execution spells out the connection's password.
C16_TraceRedacted ==
    \A m \in tracer.out : conn.password \notin m.secrets

\* a first URL with a configuration error: too short, no http prefix, not
\* parsable, or an invalid level, timeout or disableClusterDiscovery value
BadConnURL(u) ==
    \/ u.form # "ok"
    \/ u.level \notin LevelNames \cup {""}
    \/ u.timeout \notin {"", "5"}
    \/ u.dcd \notin {"", "true", "false"}

\* C17: an open whose first URL has a configuration error returns that error
\* at once: no request is sent to any peer and no executor call is begun.
C17_ConfigErrorsFailFast ==
    (fn.op = "Open" /\ BadConnURL(fn.url)) =>
        /\ result.op = "Open"
        /\ result.err \in ConfigErrors
        /\ pc = "idle"
        /\ reqLog = <<>>
        /\ call = NoCall

\* an open with an invalid timeout and a seed URL has returned its error;
\* discovery was not disabled, so a valid URL would have sent the request
C17_Witness ==
    /\ fn.op = "Open"
    /\ fn.url.form = "ok"
    /\ fn.url.timeout = "abc"
    /\ fn.url.dcd = ""
    /\ fn.seeds # <<>>
    /\ result.op = "Open"
    /\ result.err = ErrBadTimeout
    /\ reqLog = <<>>
    /\ pc = "idle"

\* a discovery response the refresh can use: status 200, a node map, and
\* every live node's address a URL
ParsableAnswer(e) ==
    /\ e.outcome = "200"
    /\ e.body.kind = "nodes"
    /\ \A k \in 1..Len(e.body.nodes) :
          LET v == e.body.nodes[k]
          IN  (v.reachable /\ v.api_addr # "") => v.api_addr # BadAddr

\* the discovery call of Open has returned
OpenReturned ==
    /\ pc = "idle"
    /\ result.op = "Open"
    /\ call.op = "Open"

\* C18: Open succeeds whenever a peer of the connection string answers the
\* discovery request with status 200 and a parsable body; a peer that fails
\* does not end the discovery, the next one is asked: when Open returns an
\* error, either a peer answered 200 with a body that does not parse, or
\* every peer of the list, the seeds included, was asked and failed.
C18_OpenSucceedsOnAnyAnswer ==
    OpenReturned =>
        /\ (\E i \in 1..Len(reqLog) : ParsableAnswer(reqLog[i])) => result.err = NoErr
        /\ result.err # NoErr =>
              \/ (reqLog # <<>> /\ reqLog[Len(reqLog)].outcome = "200")
              \/ /\ \A k \in 1..Len(call.peers) :
                        \E i \in 1..Len(reqLog) : reqLog[i].slot = k /\ reqLog[i].outcome # "200"
                 /\ result.err = ErrNoLeader

\* the first URL's host and the first seed were unreachable, the second seed
\* answered with a node map, and Open returned without error
C18_Witness ==
    /\ OpenReturned
    /\ Len(call.peers) = 3
    /\ Len(reqLog) = 3
    /\ reqLog[1].outcome = "doErr"
    /\ reqLog[2].outcome = "doErr"
    /\ ParsableAnswer(reqLog[3])
    /\ reqLog[3].peer = call.peers[3]
    /\ result.err = NoErr

\* the number of '?' in a SQL text
Placeholders(sql) == Cardinality({i \in 1..Len(sql) : sql[i] = "?"})

\* C19: NewStatement never fails, it returns a statement with the SQL text and
\* the arguments as given; the statement's Warning is non-empty if and only if
\* the number of '?' in the text differs from the number of arguments.
C19_WarningIffCountMismatch ==
    fn.op = "NewStatement" =>
        /\ fn.ret \in 1..Len(fn.heap)
        /\ LET st == fn.heap[fn.ret]
           IN  /\ st.Sql = fn.sql
               /\ st.Parameters = fn.params
               /\ (st.Warning.text # "") <=> (Placeholders(fn.sql) # Len(fn.params))

\* two placeholders and one argument: the statement carries a warning
C19_Witness ==
    /\ fn.op = "NewStatement"
    /\ fn.sql = <<"?", "?">>
    /\ fn.params = <<"a">>
    /\ fn.heap[fn.ret].Warning.text # ""
    /\ fn.heap[fn.ret].Warning.got = 1
    /\ fn.heap[fn.ret].Warning.expected = 2

\* two placeholders and two arguments: no warning
C19_WitnessMatch ==
    /\ fn.op = "NewStatement"
    /\ fn.sql = <<"?", "?">>
    /\ fn.params = <<"a", "b">>
    /\ fn.heap[fn.ret].Warning = NoWarning

\* C20: Append returns a new statement: the address it returns is not the
\* receiver's, and the receiver's SQL text and parameters, as every holder
\* of that address reads them, are what they were before the call.
C20_AppendLeavesReceiver ==
    fn.op = "Append" =>
        /\ fn.ret # fn.recv
        /\ fn.heap[fn.recv].Sql = fn.before[fn.recv].Sql
        /\ fn.heap[fn.recv].Parameters = fn.before[fn.recv].Parameters

\* C21: the body encoded for a batch of n statements is a JSON array of
\* exactly n arrays in submission order; the i-th array is the i-th
\* statement's SQL text followed by its arguments, same order, same count.
C21_BatchEncoding ==
    fn.op = "rqliteApiPost" =>
        /\ fn.body.j = "array"
        /\ Len(fn.body.elems) = Len(fn.stmts)
        /\ \A i \in 1..Len(fn.stmts) :
              LET a == fn.body.elems[i]
                  st == fn.stmts[i]
              IN  /\ a.j = "array"
                  /\ Len(a.elems) = Len(st.Arguments) + 1
                  /\ a.elems[1] = jString(st.Query)
                  /\ \A k \in 1..Len(st.Arguments) :
                        a.elems[k + 1] =
                            (IF st.Arguments[k].go = "int" THEN jNumber(st.Arguments[k].v)
                             ELSE IF st.Arguments[k].go = "bytes" THEN jString(base64(st.Arguments[k].v))
                             ELSE jString(st.Arguments[k].v))

\* a batch of two different statements, the first with two arguments of
\* different types, the second with none, has been encoded
C21_Witness ==
    /\ fn.op = "rqliteApiPost"
    /\ Len(fn.stmts) = 2
    /\ fn.stmts[1].Query = "INSERT INTO t VALUES (?, ?)"
    /\ fn.stmts[1].Arguments = <<[go |-> "int", v |-> "1"], [go |-> "string", v |-> "bob"]>>
    /\ fn.stmts[2] = [Query |-> "SELECT 1", Arguments |-> <<>>]
    /\ Len(fn.body.elems) = 2
    /\ fn.body.elems[1].elems = <<jString("INSERT INTO t VALUES (?, ?)"), jNumber("1"), jString("bob")>>
    /\ fn.body.elems[2].elems = <<jString("SELECT 1")>>

\* C22: the cursor starts before the first row; a Next() that returns true
\* has advanced the zero-based position by one, and it returns true exactly
\* while fewer rows have been visited than the result holds; once a Next()
\* has returned false every later one does, and the position never goes
\* back; over zero rows the first Next() returns false.
C22_CursorForwardOnly ==
    /\ fn.op = "QueryOne" => fn.qr.rowNumber = -1
    /\ fn.op = "Next" =>
          /\ fn.ok <=> (fn.trues <= Len(fn.qr.values) /\ fn.falses = 0)
          /\ fn.ok => (fn.qr.rowNumber = fn.before + 1 /\ fn.qr.rowNumber = fn.trues - 1)
          /\ fn.qr.rowNumber >= fn.before
          /\ (fn.falses = 0) => fn.trues >= 1
          /\ (fn.falses >= 1) => fn.trues = Len(fn.qr.values)

\* two rows: Next() was true twice, then false twice
C22_Witness ==
    /\ fn.op = "Next"
    /\ Len(fn.qr.values) = 2
    /\ fn.trues = 2
    /\ fn.falses = 2
    /\ ~fn.ok

C24_PartialBatchDecoding ==
    fn.op = "decode" =>
        /\ Len(fn.slots) = Len(fn.entries)
        /\ \A i \in 1..Len(fn.entries) :
              /\ fn.slots[i].Err = fn.entries[i].error
              /\ fn.entries[i].error = "" => fn.slots[i].n = fn.entries[i].n

\* three statements, the second failed: the first and third slots hold
\* their results, the second its error
C24_Witness ==
    /\ fn.op = "decode"
    /\ Len(fn.entries) = 3
    /\ fn.entries[1].error = ""
    /\ fn.entries[2].error # ""
    /\ fn.entries[3] = [error |-> "", n |-> 2]
    /\ fn.slots[2].Err = fn.entries[2].error
    /\ fn.slots[3].Err = NoErr
    /\ fn.slots[3].n = 2

\* C25: a set of the consistency level to a value outside none, weak and
\* strong (SetConsistency below none or above strong, SetConsistencyLevel
\* with an unknown name) returns an error and leaves the level as it was.
C25_BadLevelRejected ==
    [][/\ \A l \in {-1, 3} :
             SetConsistencyWith(l) =>
                 (result'.err # NoErr /\ conn'.consistencyLevel = conn.consistencyLevel)
       /\ SetConsistencyLevelWith("bogus") =>
             (result'.err # NoErr /\ conn'.consistencyLevel = conn.consistencyLevel)]_vars

\* an unknown level was refused on an open connection whose level had been
\* set to strong before: the level is still strong
C25_Witness ==
    /\ pc = "idle"
    /\ result.op \in {"SetConsistency", "SetConsistencyLevel"}
    /\ result.err = ErrUnknownLevel
    /\ ~conn.hasBeenClosed
    /\ conn.consistencyLevel = ConsistencyLevelStrong

\* the name of a consistency level
LevelNameOf(l) == IF l = 0 THEN "none" ELSE IF l = 1 THEN "weak" ELSE "strong"

\* the level parameter of an assembled URL
LevelIn(u) == {q[2] : q \in {u.query[i] : i \in {k \in 1..Len(u.query) : Len(u.query[k]) = 2}}}

\* C26: on an open connection a successful set to L makes L the level; no
\* other step changes it; ConsistencyLevel() returns the name of the level,
\* and every request of a data operation carries level=<that name>: so both
\* show L from a successful set until the next one.
C26_LevelSetThenUsed ==
    [][/\ \A l \in 0..2 :
             (SetConsistencyWith(l) /\ result'.err = NoErr) => conn'.consistencyLevel = l
       /\ \A name \in LevelNames :
             (SetConsistencyLevelWith(name) /\ result'.err = NoErr) =>
                 LevelNameOf(conn'.consistencyLevel) = name
       /\ (pc # "new" /\ conn'.consistencyLevel # conn.consistencyLevel) =>
             ((SetConsistency \/ SetConsistencyLevel) /\ result'.err = NoErr)
       /\ (ConsistencyLevel /\ result'.err = NoErr) =>
             result'.value = <<LevelNameOf(conn.consistencyLevel)>>
       /\ (Len(reqLog') > Len(reqLog) /\ call.apiOp \in {"api_QUERY", "api_WRITE", "api_REQUEST"}) =>
             LevelIn(reqLog'[Len(reqLog')].url) = {LevelNameOf(conn.consistencyLevel)}]_vars

\* after the level was set to strong a data operation has sent its request
\* with level=strong
C26_Witness ==
    /\ pc = "idle"
    /\ call.op \in PostOps
    /\ conn.consistencyLevel = ConsistencyLevelStrong
    /\ reqLog # <<>>
    /\ LevelIn(reqLog[1].url) = {"strong"}
    /\ result.err = NoErr

C29_WitnessQueryNoQueue ==
    /\ fn.op = "assembleURL"
    /\ fn.apiOp = "api_QUERY"
    /\ fn.conn.wantsQueueing
    /\ ~fn.conn.wantsTransactions
    /\ Len(fn.url.query) = 2

\* the peer a URL host stands for when the default port is applied
WithPort4001(h) ==
    IF h = "" THEN "localhost:4001" ELSE IF h = "host4" THEN "host4:4001" ELSE h

\* C27: every peer derived from a URL of the connection string that omits
\* the port uses port 4001: the first URL's and every further URL's.
C27_DefaultPort ==
    fn.op = "OpenPeers" =>
        /\ fn.leader = WithPort4001(fn.host)
        /\ Len(fn.otherPeers) = Len(fn.seeds)
        /\ \A i \in 1..Len(fn.seeds) : fn.otherPeers[i] = WithPort4001(fn.seeds[i])

\* the further URLs alone do get the default port
SeedsGetDefaultPort ==
    fn.op = "OpenPeers" =>
        /\ Len(fn.otherPeers) = Len(fn.seeds)
        /\ \A i \in 1..Len(fn.seeds) : fn.otherPeers[i] = WithPort4001(fn.seeds[i])

\* C28: on an open connection with discovery enabled, a Leader() that
\* returns without error returns a non-empty leader address, and a Peers()
\* that returns without error returns at least one peer.
C28_LeaderAndPeersNonEmpty ==
    (pc = "idle" /\ result.err = NoErr /\ ~conn.hasBeenClosed /\ ~conn.disableClusterDiscovery) =>
        /\ result.op = "Leader" => result.value # <<NoPeer>>
        /\ result.op = "Peers" => Len(result.value) >= 1

\* the status path yields a leader: the request succeeded and the body's
\* store section names a leader whose address the metadata resolves
StatusYieldsLeader(sr) ==
    /\ sr.err = NoErr
    /\ sr.kind = "status"
    /\ sr.store
    /\ sr.leader \in {"object", "string"}
    /\ sr.addr # ""

\* C30: a refresh with the status endpoint in use asks the status endpoint
\* first; whenever the status path yields no leader (the request fails, or
\* the body names no resolvable leader) it asks the node-list endpoint next
\* and ends as the node-list path ends, instead of failing.
C30_StatusThenNodes ==
    (fn.op = "refresh" /\ fn.useStatusApi) =>
        /\ fn.calls # <<>>
        /\ fn.calls[1] = "api_STATUS"
        /\ ~StatusYieldsLeader(fn.sr) =>
              /\ fn.calls = <<"api_STATUS", "api_NODES">>
              /\ fn.err \in {NoErr, ErrNoLeader, ErrUnmarshal, ErrParseAddr}
              /\ (fn.nr.err = NoErr /\ fn.nr.body.kind = "nodes"
                    /\ \A k \in 1..Len(fn.nr.body.nodes) : fn.nr.body.nodes[k].api_addr # BadAddr)
                 => fn.err = NoErr

\* the fallback the code does have: the status body names a leader the
\* metadata does not resolve, and the node-list endpoint is asked
StatusFallbackTaken ==
    /\ fn.op = "refresh"
    /\ fn.useStatusApi
    /\ fn.sr.leader = "string"
    /\ fn.sr.addr = ""
    /\ fn.calls = <<"api_STATUS", "api_NODES">>
    /\ fn.err = NoErr
    /\ fn.rc.leader = "host1:4001"

\* C31: every executor call terminates after a bounded number of requests:
\* a call sends at most one request per peer of its list, every iteration
\* ends the call or moves to a later peer (a 301 included: the redirect is
\* logged, not followed), and a call in flight does return.
C31_CallTerminates ==
    /\ [](pc = "call" => (call.i <= Len(call.peers) /\ Len(reqLog) < call.i))
    /\ [](pc = "idle" => Len(reqLog) <= Len(call.peers))
    /\ [][(pc = "call" /\ reqLog' # reqLog) =>
             (pc' = "idle" \/ (call'.i > call.i /\ call'.peers = call.peers))]_vars
    /\ (pc = "call") ~> (pc = "idle")

\* a write on three peers got 301 from each of them and has returned the
\* aggregate error after three requests
C31_Witness ==
    /\ pc = "idle"
    /\ call.op = "Write"
    /\ Len(call.peers) = 3
    /\ Len(reqLog) = 3
    /\ \A i \in 1..3 : reqLog[i].outcome = "301"
    /\ result.err = ErrAllPeers

\* C32: an executor call on a connection whose ordered peer list is empty
\* returns the no-peers error without sending a request, and rqliteApiGet /
\* rqliteApiPost called with an operation kind they do not accept return their
\* invalid-operation error before any peer is contacted (the request log of
\* the call is empty), whatever the peer list holds.
C32_RejectedWithoutRequest ==
    (pc = "idle" /\ fn.op \in {"rqliteApiGet", "rqliteApiPost"}) =>
        /\ (fn.op = "rqliteApiGet" /\ fn.apiOp \notin {"api_STATUS", "api_NODES"}) =>
              (result.err = ErrInvalidGet /\ reqLog = <<>> /\ call = NoCall)
        /\ (fn.op = "rqliteApiPost" /\ fn.apiOp \notin {"api_QUERY", "api_WRITE"}) =>
              (result.err = ErrInvalidPost /\ reqLog = <<>> /\ call = NoCall)
        /\ (call # NoCall /\ call.peers = <<>>) =>
              (result.err = ErrNoPeers /\ ret.err = ErrNoPeers /\ reqLog = <<>>)
        /\ (call # NoCall) => call.peers = conn.cluster.peerList
        /\ result.err \in {ErrInvalidGet, ErrInvalidPost, ErrNoPeers} => reqLog = <<>>

\* an accepted operation on a connection whose peer list a refresh had emptied
\* got the no-peers error
C32_Witness ==
    /\ pc = "idle"
    /\ fn.op = "rqliteApiPost"
    /\ fn.apiOp = "api_WRITE"
    /\ conn.cluster.peerList = <<>>
    /\ result.err = ErrNoPeers
    /\ reqLog = <<>>

C34_RefreshKeepsPeers ==
    (/\ pc = "idle"
     /\ call.op \in RefreshOps
     /\ reqLog # <<>>
     /\ result.err = NoErr
     /\ call.before.peerList # <<>>) => conn.cluster.peerList # <<>>

\* the orders in which the node map of a response can be iterated
IterationOrders(nodes) ==
    {[i \in 1..Len(nodes) |-> nodes[f[i]]] : f \in Permutations(1..Len(nodes))}

\* the elements of a sequence
Range(s) == {s[i] : i \in 1..Len(s)}

\* C35: the topology built from a node-list response does not depend on the
\* order in which the node map is iterated: every order of the same node
\* records gives the same error, the same leader and the same set of other
\* peers, also when several reachable nodes are flagged leader.
C35_OrderIndependent ==
    fn.op \in ParseOps =>
        \A nodes2 \in IterationOrders(fn.body.nodes) :
            LET r2 == IF fn.op = "processNodeInfoBody"
                      THEN processNodeInfoBody([fn.body EXCEPT !.nodes = nodes2], EmptyCluster)
                      ELSE LET u == updateClusterInfo(EmptyCluster,
                                       [body |-> [fn.body EXCEPT !.nodes = nodes2],
                                        err |-> NoErr, failureLog |-> <<>>])
                           IN  [err |-> u.err, rc |-> u.cluster]
            IN  /\ r2.err = fn.err
                /\ fn.err = NoErr =>
                      /\ r2.rc.leader = fn.rc.leader
                      /\ Range(r2.rc.otherPeers) = Range(fn.rc.otherPeers)

\* the topology the connection string names: the host of the first URL as
\* leader, the hosts of the further URLs as other peers
SeedTopology(u, seeds) ==
    LET l == IF u.host = "" THEN "localhost:4001" ELSE u.host
        o == [i \in 1..Len(seeds) |-> WithPort4001(seeds[i])]
    IN  [leader |-> l, otherPeers |-> o, peerList |-> <<l>> \o o]

\* C36: on a connection opened with disableClusterDiscovery=true, Open,
\* Leader() and Peers() send no /nodes request, the topology stays the seed
\* list of the connection string, and Leader() and Peers() answer from it.
C36_DiscoveryDisabled ==
    (fn.op = "Open" /\ fn.url.form = "ok" /\ fn.url.dcd = "true") =>
        /\ conn.disableClusterDiscovery
        /\ \A k \in 1..Len(reqLog) : reqLog[k].url.path # "/nodes"
        /\ pc = "call" => call.op \notin RefreshOps
        /\ conn.cluster = SeedTopology(fn.url, fn.seeds)
        /\ (pc = "idle" /\ result.op \in RefreshOps) =>
              /\ reqLog = <<>>
              /\ result.err = NoErr
              /\ result.op = "Leader" => result.value = <<conn.cluster.leader>>
              /\ result.op = "Peers" => result.value = SeedTopology(fn.url, fn.seeds).peerList

\* Peers() on a connection opened with discovery disabled from three URLs,
\* after a write that went to the network
C36_Witness ==
    /\ fn.op = "Open"
    /\ fn.url.dcd = "true"
    /\ Len(fn.seeds) = 2
    /\ pc = "idle"
    /\ result.op = "Peers"
    /\ result.err = NoErr
    /\ Len(result.value) = 3
    /\ call = NoCall

\* the low-level calls of ExecSpec
ExecCalls == {"rqliteApiGet", "rqliteApiPost"}

\* C37: a call of rqliteApiGet or rqliteApiPost (and with them rqliteApiCall)
\* leaves the connection as it was, whether it is rejected, fails on every
\* peer or succeeds: no step of the call, from its entry to its return,
\* changes the topology, the consistency level, the transaction and
\* queueing preferences or the closed flag.
C37_CallLeavesConnection ==
    [][fn'.op \in ExecCalls =>
          /\ conn'.cluster = conn.cluster
          /\ conn'.consistencyLevel = conn.consistencyLevel
          /\ conn'.wantsTransactions = conn.wantsTransactions
          /\ conn'.wantsQueueing = conn.wantsQueueing
          /\ conn'.hasBeenClosed = conn.hasBeenClosed
          /\ conn' = conn]_vars

\* rqliteApiGet of /nodes has returned a body that names another leader, and
\* the connection still has the topology the call started with
C37_Witness ==
    /\ pc = "idle"
    /\ fn.op = "rqliteApiGet"
    /\ fn.apiOp = "api_NODES"
    /\ ret.err = NoErr
    /\ Len(reqLog) = 2
    /\ ret.body.kind = "nodes"
    /\ ret.body.nodes # <<>>
    /\ ret.body.nodes[1].leader
    /\ ret.body.nodes[1].reachable
    /\ ret.body.nodes[1].api_addr # APIAddr(conn.cluster.leader)
    /\ conn.cluster = call.before

\* C38: every statement built by NewStatement and any number of Append calls
\* carries a Warning if and only if the number of '?' in its current SQL text
\* differs from its current number of parameters.
C38_WarningTracksAppend ==
    fn.op \in {"NewStatement", "Append"} =>
        \A a \in 1..Len(fn.heap) :
            (fn.heap[a].Warning.text # "") <=>
                (Placeholders(fn.heap[a].Sql) # Len(fn.heap[a].Parameters))

\* C39: every request a connection with a non-empty username sends carries
\* user-info with that username, and with the password when one was given;
\* also when the password is empty.
C39_CredentialsEmbedded ==
    conn.username # "" =>
        \A k \in 1..Len(reqLog) :
            /\ reqLog[k].url.username = conn.username
            /\ reqLog[k].url.password = conn.password

====
